---- MODULE Spec2Model ----
(***************************************************************************)
(* Model of the console checkers game of src/checkersGame.cpp: the Board   *)
(* grid of Piece pointers, the CheckersGame rule functions and the turn    *)
(* loop of CheckersGame::run.                                              *)
(***************************************************************************)
EXTENDS Integers, FiniteSets, Sequences, TLC

\* ---------------------------------------------------------------- bounds
\* Accepted moves explored per run of the game loop.
MaxMoves == 2
\* Largest row/column distance between the two squares of a typed move or of
\* a direct call of movePiece, and how far outside the board a coordinate
\* passed to getPiece may lie.
MaxDelta == 2

\* ------------------------------------------------------- enums, constants
NONE == 0
RED == 1
BLACK == 2
BOARD_SIZE == 8

Coords == 0 .. (BOARD_SIZE - 1)
Squares == Coords \X Coords

Abs(x) == IF x < 0 THEN -x ELSE x

\* -------------------------------------------------------------- Piece
\* A grid cell is a Piece* : Null is nullptr, any other value is the Piece
\* the pointer refers to.
Null == [owner |-> NONE, isKing |-> FALSE, row |-> -1, col |-> -1]

Piece(p, r, c) == [owner |-> p, isKing |-> FALSE, row |-> r, col |-> c]

makeKing(piece) == [piece EXCEPT !.isKing = TRUE]

setPosition(piece, r, c) == [piece EXCEPT !.row = r, !.col = c]

King(p, r, c) == makeKing(Piece(p, r, c))

\* -------------------------------------------------------------- Board
EmptyGrid == [s \in Squares |-> Null]

\* The pieces are placed on the squares whose row + col is even.
initializeBoard_evenSquares ==
    [s \in Squares |->
        IF s[1] < 3 /\ (s[1] + s[2]) % 2 = 0 THEN Piece(BLACK, s[1], s[2])
        ELSE IF s[1] >= 5 /\ (s[1] + s[2]) % 2 = 0 THEN Piece(RED, s[1], s[2])
        ELSE Null]

initializeBoard ==
    [s \in Squares |->
        IF s[1] < 3 /\ (s[1] + s[2]) % 2 # 0 THEN Piece(BLACK, s[1], s[2])
        ELSE IF s[1] >= 5 /\ (s[1] + s[2]) % 2 # 0 THEN Piece(RED, s[1], s[2])
        ELSE Null]

getPiece(g, r, c) ==
    IF r < 0 \/ r >= BOARD_SIZE \/ c < 0 \/ c >= BOARD_SIZE THEN Null
    ELSE g[<<r, c>>]

\* The piece keeps the position it had before the move.
movePiece_noSetPosition(g, r1, c1, r2, c2) ==
    LET piece == g[<<r1, c1>>] IN
    IF piece # Null
    THEN [g EXCEPT ![<<r2, c2>>] = piece, ![<<r1, c1>>] = Null]
    ELSE g

\* The source square keeps its pointer: the piece is on both squares.
movePiece_copy(g, r1, c1, r2, c2) ==
    LET piece == g[<<r1, c1>>] IN
    IF piece # Null
    THEN [g EXCEPT ![<<r2, c2>>] = setPosition(piece, r2, c2)]
    ELSE g

\* The test for a piece on the source square is missing: both squares are
\* written.
movePiece_noGuard(g, r1, c1, r2, c2) ==
    LET piece == g[<<r1, c1>>] IN
    [g EXCEPT ![<<r2, c2>>] = IF piece # Null
                              THEN setPosition(piece, r2, c2)
                              ELSE Null,
              ![<<r1, c1>>] = Null]

movePiece(g, r1, c1, r2, c2) ==
    LET piece == g[<<r1, c1>>] IN
    IF piece # Null
    THEN [g EXCEPT ![<<r2, c2>>] = setPosition(piece, r2, c2),
                   ![<<r1, c1>>] = Null]
    ELSE g

\* The captured piece is left on its square.
removePiece_keep(g, r, c) == g

removePiece(g, r, c) ==
    IF g[<<r, c>>] # Null THEN [g EXCEPT ![<<r, c>>] = Null] ELSE g

\* -------------------------------------------------------- CheckersGame
Move(r1, c1, r2, c2) == [startR |-> r1, startC |-> c1, endR |-> r2, endC |-> c2]

isInBounds(r, c) == r >= 0 /\ r < BOARD_SIZE /\ c >= 0 /\ c < BOARD_SIZE

\* The target square is not checked for a piece.
isSimpleMoveValid_noTarget(g, r1, c1, r2, c2) ==
    LET piece == getPiece(g, r1, c1) IN
    IF piece = Null THEN FALSE
    ELSE IF Abs(r2 - r1) # 1 \/ Abs(c2 - c1) # 1 THEN FALSE
    ELSE IF ~piece.isKing /\ piece.owner = RED /\ (r2 - r1) > 0 THEN FALSE
    ELSE IF ~piece.isKing /\ piece.owner = BLACK /\ (r2 - r1) < 0 THEN FALSE
    ELSE TRUE

\* The two distance tests are joined by "and" instead of "or".
isSimpleMoveValid_andDist(g, r1, c1, r2, c2) ==
    LET piece == getPiece(g, r1, c1) IN
    IF piece = Null \/ getPiece(g, r2, c2) # Null THEN FALSE
    ELSE IF Abs(r2 - r1) # 1 /\ Abs(c2 - c1) # 1 THEN FALSE
    ELSE IF ~piece.isKing /\ piece.owner = RED /\ (r2 - r1) > 0 THEN FALSE
    ELSE IF ~piece.isKing /\ piece.owner = BLACK /\ (r2 - r1) < 0 THEN FALSE
    ELSE TRUE

\* The two direction tests are exchanged between the sides.
isSimpleMoveValid_redDown(g, r1, c1, r2, c2) ==
    LET piece == getPiece(g, r1, c1) IN
    IF piece = Null \/ getPiece(g, r2, c2) # Null THEN FALSE
    ELSE IF Abs(r2 - r1) # 1 \/ Abs(c2 - c1) # 1 THEN FALSE
    ELSE IF ~piece.isKing /\ piece.owner = RED /\ (r2 - r1) < 0 THEN FALSE
    ELSE IF ~piece.isKing /\ piece.owner = BLACK /\ (r2 - r1) > 0 THEN FALSE
    ELSE TRUE

\* The direction of a non-king is not checked.
isSimpleMoveValid_noDir(g, r1, c1, r2, c2) ==
    LET piece == getPiece(g, r1, c1) IN
    IF piece = Null \/ getPiece(g, r2, c2) # Null THEN FALSE
    ELSE IF Abs(r2 - r1) # 1 \/ Abs(c2 - c1) # 1 THEN FALSE
    ELSE TRUE

isSimpleMoveValid(g, r1, c1, r2, c2) ==
    LET piece == getPiece(g, r1, c1) IN
    IF piece = Null \/ getPiece(g, r2, c2) # Null THEN FALSE
    ELSE IF Abs(r2 - r1) # 1 \/ Abs(c2 - c1) # 1 THEN FALSE
    ELSE IF ~piece.isKing /\ piece.owner = RED /\ (r2 - r1) > 0 THEN FALSE
    ELSE IF ~piece.isKing /\ piece.owner = BLACK /\ (r2 - r1) < 0 THEN FALSE
    ELSE TRUE

\* The owner of the jumped piece is not compared with the mover's.
isJumpValid_anyOwner(g, r1, c1, r2, c2) ==
    LET piece == getPiece(g, r1, c1) IN
    IF piece = Null \/ getPiece(g, r2, c2) # Null THEN FALSE
    ELSE IF Abs(r2 - r1) # 2 \/ Abs(c2 - c1) # 2 THEN FALSE
    ELSE LET jumpedR == (r1 + r2) \div 2
             jumpedC == (c1 + c2) \div 2
             jumpedPiece == getPiece(g, jumpedR, jumpedC)
         IN IF jumpedPiece = Null \/ jumpedPiece.owner = NONE THEN FALSE
            ELSE IF ~piece.isKing /\ piece.owner = RED /\ (r2 - r1) > 0 THEN FALSE
            ELSE IF ~piece.isKing /\ piece.owner = BLACK /\ (r2 - r1) < 0 THEN FALSE
            ELSE TRUE

isJumpValid(g, r1, c1, r2, c2) ==
    LET piece == getPiece(g, r1, c1) IN
    IF piece = Null \/ getPiece(g, r2, c2) # Null THEN FALSE
    ELSE IF Abs(r2 - r1) # 2 \/ Abs(c2 - c1) # 2 THEN FALSE
    ELSE LET jumpedR == (r1 + r2) \div 2
             jumpedC == (c1 + c2) \div 2
             jumpedPiece == getPiece(g, jumpedR, jumpedC)
         IN IF jumpedPiece = Null \/ jumpedPiece.owner = piece.owner
                                  \/ jumpedPiece.owner = NONE THEN FALSE
            ELSE IF ~piece.isKing /\ piece.owner = RED /\ (r2 - r1) > 0 THEN FALSE
            ELSE IF ~piece.isKing /\ piece.owner = BLACK /\ (r2 - r1) < 0 THEN FALSE
            ELSE TRUE

JumpDirections == {<<-2, -2>>, <<-2, 2>>, <<2, -2>>, <<2, 2>>}
SimpleDirections == {<<-1, -1>>, <<-1, 1>>, <<1, -1>>, <<1, 1>>}

\* Only the two directions towards row 0 are tried.
getPossibleJumpsForPiece_upOnly(g, r, c) ==
    IF getPiece(g, r, c) = Null THEN {}
    ELSE {Move(r, c, r + d[1], c + d[2]) : d \in
            {e \in {<<-2, -2>>, <<-2, 2>>} :
                /\ isInBounds(r + e[1], c + e[2])
                /\ isJumpValid(g, r, c, r + e[1], c + e[2])}}

getPossibleJumpsForPiece(g, r, c) ==
    IF getPiece(g, r, c) = Null THEN {}
    ELSE {Move(r, c, r + d[1], c + d[2]) : d \in
            {e \in JumpDirections :
                /\ isInBounds(r + e[1], c + e[2])
                /\ isJumpValid(g, r, c, r + e[1], c + e[2])}}

\* The pieces scanned are those that do not belong to the player.
getAllPossibleJumps_opponent(g, player) ==
    UNION {getPossibleJumpsForPiece(g, s[1], s[2]) : s \in
            {t \in Squares : /\ getPiece(g, t[1], t[2]) # Null
                             /\ getPiece(g, t[1], t[2]).owner # player}}

getAllPossibleJumps(g, player) ==
    UNION {getPossibleJumpsForPiece(g, s[1], s[2]) : s \in
            {t \in Squares : /\ getPiece(g, t[1], t[2]) # Null
                             /\ getPiece(g, t[1], t[2]).owner = player}}

getAllPossibleSimpleMoves(g, player) ==
    UNION {{Move(s[1], s[2], s[1] + d[1], s[2] + d[2]) : d \in
                {e \in SimpleDirections :
                    /\ isInBounds(s[1] + e[1], s[2] + e[2])
                    /\ isSimpleMoveValid(g, s[1], s[2], s[1] + e[1], s[2] + e[2])}}
           : s \in {t \in Squares : /\ getPiece(g, t[1], t[2]) # Null
                                    /\ getPiece(g, t[1], t[2]).owner = player}}

switchPlayer(player) == IF player = RED THEN BLACK ELSE RED

\* Black's last row is taken to be BOARD_SIZE.
kingAt_offByOne(g, r2, c2) ==
    LET piece == getPiece(g, r2, c2) IN
    IF piece # Null
    THEN IF piece.owner = RED /\ r2 = 0
              THEN [g EXCEPT ![<<r2, c2>>] = makeKing(piece)]
         ELSE IF piece.owner = BLACK /\ r2 = BOARD_SIZE
              THEN [g EXCEPT ![<<r2, c2>>] = makeKing(piece)]
         ELSE g
    ELSE g

\* The kinging step of executeMove applied to the piece at (r2, c2).
kingAt(g, r2, c2) ==
    LET piece == getPiece(g, r2, c2) IN
    IF piece # Null
    THEN IF piece.owner = RED /\ r2 = 0
              THEN [g EXCEPT ![<<r2, c2>>] = makeKing(piece)]
         ELSE IF piece.owner = BLACK /\ r2 = BOARD_SIZE - 1
              THEN [g EXCEPT ![<<r2, c2>>] = makeKing(piece)]
         ELSE g
    ELSE g

\* The square cleared after a jump is the one the piece came from.
afterCapture_removeSource(g, r1, c1, r2, c2) ==
    LET moved == movePiece(g, r1, c1, r2, c2) IN
    IF Abs(r2 - r1) = 2
    THEN removePiece(moved, r1, c1)
    ELSE moved

\* The board after step 1 and step 2 of executeMove (relocation, capture).
afterCapture(g, r1, c1, r2, c2) ==
    LET moved == movePiece(g, r1, c1, r2, c2) IN
    IF Abs(r2 - r1) = 2
    THEN removePiece(moved, (r1 + r2) \div 2, (c1 + c2) \div 2)
    ELSE moved

\* The kinging step runs before the multi-jump check.
executeMove_kingFirst(g, player, r1, c1, r2, c2) ==
    LET g3 == kingAt(afterCapture(g, r1, c1, r2, c2), r2, c2) IN
    IF Abs(r2 - r1) = 2 /\ getPossibleJumpsForPiece(g3, r2, c2) # {}
    THEN [grid |-> g3, currentPlayer |-> player, ret |-> TRUE]
    ELSE [grid |-> g3, currentPlayer |-> switchPlayer(player), ret |-> FALSE]

\* The player is switched before the multi-jump check returns.
executeMove_earlySwitch(g, player, r1, c1, r2, c2) ==
    LET g2 == afterCapture(g, r1, c1, r2, c2) IN
    IF Abs(r2 - r1) = 2 /\ getPossibleJumpsForPiece(g2, r2, c2) # {}
    THEN [grid |-> g2, currentPlayer |-> switchPlayer(player), ret |-> TRUE]
    ELSE [grid |-> kingAt(g2, r2, c2),
          currentPlayer |-> switchPlayer(player),
          ret |-> FALSE]

\* The multi-jump check looks at the board before the captured piece is
\* removed.
executeMove_probeBeforeRemove(g, player, r1, c1, r2, c2) ==
    LET moved == movePiece(g, r1, c1, r2, c2)
        g2 == afterCapture(g, r1, c1, r2, c2)
    IN IF Abs(r2 - r1) = 2 /\ getPossibleJumpsForPiece(moved, r2, c2) # {}
       THEN [grid |-> g2, currentPlayer |-> player, ret |-> TRUE]
       ELSE [grid |-> kingAt(g2, r2, c2),
             currentPlayer |-> switchPlayer(player),
             ret |-> FALSE]

\* executeMove: the new grid, the new currentPlayer and the returned flag.
executeMove(g, player, r1, c1, r2, c2) ==
    LET g2 == afterCapture(g, r1, c1, r2, c2) IN
    IF Abs(r2 - r1) = 2 /\ getPossibleJumpsForPiece(g2, r2, c2) # {}
    THEN [grid |-> g2, currentPlayer |-> player, ret |-> TRUE]
    ELSE [grid |-> kingAt(g2, r2, c2),
          currentPlayer |-> switchPlayer(player),
          ret |-> FALSE]

countPieces(g, player) ==
    Cardinality({s \in Squares : /\ getPiece(g, s[1], s[2]) # Null
                                 /\ getPiece(g, s[1], s[2]).owner = player})

\* The two piece-count tests return the side that has no piece.
checkForWin_swapped(g, player) ==
    IF countPieces(g, RED) = 0 THEN RED
    ELSE IF countPieces(g, BLACK) = 0 THEN BLACK
    ELSE IF /\ getAllPossibleJumps(g, player) = {}
            /\ getAllPossibleSimpleMoves(g, player) = {}
         THEN (IF player = RED THEN BLACK ELSE RED)
    ELSE NONE

\* Only the piece counts decide; a side without a move is not looked for.
checkForWin_noBlock(g, player) ==
    IF countPieces(g, RED) = 0 THEN BLACK
    ELSE IF countPieces(g, BLACK) = 0 THEN RED
    ELSE NONE

\* A side without a jump is declared blocked; its simple moves are not
\* looked at.
checkForWin_jumpsOnly(g, player) ==
    IF countPieces(g, RED) = 0 THEN BLACK
    ELSE IF countPieces(g, BLACK) = 0 THEN RED
    ELSE IF getAllPossibleJumps(g, player) = {}
         THEN (IF player = RED THEN BLACK ELSE RED)
    ELSE NONE

checkForWin(g, player) ==
    IF countPieces(g, RED) = 0 THEN BLACK
    ELSE IF countPieces(g, BLACK) = 0 THEN RED
    ELSE IF /\ getAllPossibleJumps(g, player) = {}
            /\ getAllPossibleSimpleMoves(g, player) = {}
         THEN (IF player = RED THEN BLACK ELSE RED)
    ELSE NONE

\* The coordinate checks at the end of parseInput.
parseInput(r1, c1, r2, c2) ==
    IF ~isInBounds(r1, c1) \/ ~isInBounds(r2, c2) THEN FALSE
    ELSE IF r1 = r2 /\ c1 = c2 THEN FALSE
    ELSE TRUE

\* ---------------------------------------------------------------- state
VARIABLES
    grid,           \* Board::grid
    currentPlayer,  \* CheckersGame::currentPlayer
    pc,             \* position in CheckersGame::run
    jumpIsForced,   \* local of the turn loop
    input,          \* the parsed coordinates r1, c1, r2, c2 of the typed move
    outcome,        \* what the last submission led to
    winner,         \* local of the turn loop
    lastLanding,    \* square announced by the multi-jump message, if any
    lastMove,       \* arguments of the last call of executeMove, if any
    nMoves,         \* number of executed moves
    chainJumps,     \* jumps executed since the turn started
    turnStartOpp,   \* pieces the opponent had when the turn started
    got             \* value returned by the last direct call of getPiece

vars == <<grid, currentPlayer, pc, jumpIsForced, input, outcome, winner,
          lastLanding, lastMove, nMoves, chainJumps, turnStartOpp, got>>

NoInput == [r1 |-> -1, c1 |-> -1, r2 |-> -1, c2 |-> -1]
NoSquare == <<-1, -1>>

\* Positions of games in progress, at the top of the turn loop.
PlaceAll(pieces) ==
    [s \in Squares |->
        IF \E p \in pieces : p.row = s[1] /\ p.col = s[2]
        THEN CHOOSE p \in pieces : p.row = s[1] /\ p.col = s[2]
        ELSE Null]

MidGames ==
    { \* two chained captures for either side, a second capturing piece
      {Piece(RED, 4, 3), Piece(RED, 2, 3), Piece(BLACK, 3, 2), Piece(BLACK, 1, 2)},
      \* kings facing each other
      {King(RED, 3, 4), King(BLACK, 4, 5), Piece(BLACK, 1, 2)},
      \* kings far apart
      {King(RED, 2, 5), King(BLACK, 5, 2)},
      \* men one step from their last row
      {Piece(RED, 1, 4), Piece(BLACK, 6, 3)},
      \* a blocked Red man
      {Piece(RED, 1, 0), Piece(BLACK, 0, 1), Piece(BLACK, 2, 5)},
      \* a capture onto the last row next to a second enemy piece
      {Piece(RED, 2, 1), Piece(BLACK, 1, 2), Piece(BLACK, 1, 4), Piece(RED, 6, 5)} }

Init ==
    /\ jumpIsForced = FALSE
    /\ input = NoInput
    /\ outcome = "None"
    /\ winner = NONE
    /\ lastLanding = NoSquare
    /\ lastMove = NoInput
    /\ nMoves = 0
    /\ chainJumps = 0
    /\ turnStartOpp = 0
    /\ got = Null
    /\ \/ /\ pc = "init"
          /\ grid = EmptyGrid
          /\ currentPlayer = RED
       \/ /\ pc = "loop"
          /\ grid \in {PlaceAll(ps) : ps \in MidGames}
          /\ currentPlayer \in {RED, BLACK}

\* --------------------------------------------------------------- actions
\* run(): board.initializeBoard() before the loop.
InitializeBoard ==
    /\ pc = "init"
    /\ grid' = initializeBoard
    /\ pc' = "loop"
    /\ UNCHANGED <<currentPlayer, jumpIsForced, input, outcome, winner,
                   lastLanding, lastMove, nMoves, chainJumps, turnStartOpp,
                   got>>

\* The win check leaves currentPlayer switched to the side it looked at last.
StartTurn_probing ==
    /\ pc = "loop"
    /\ LET w == checkForWin(grid, currentPlayer) IN
       IF w # NONE
       THEN /\ winner' = w
            /\ pc' = "won"
            /\ UNCHANGED <<jumpIsForced, chainJumps, turnStartOpp>>
       ELSE /\ jumpIsForced' = (getAllPossibleJumps(grid, currentPlayer) # {})
            /\ pc' = "input"
            /\ chainJumps' = 0
            /\ turnStartOpp' = countPieces(grid, switchPlayer(currentPlayer))
            /\ UNCHANGED winner
    /\ currentPlayer' = switchPlayer(currentPlayer)
    /\ UNCHANGED <<grid, input, outcome, lastLanding, lastMove, nMoves, got>>

\* Top of the outer loop: checkForWin, then the forced-jump flag.
StartTurn ==
    /\ pc = "loop"
    /\ LET w == checkForWin(grid, currentPlayer) IN
       IF w # NONE
       THEN /\ winner' = w
            /\ pc' = "won"
            /\ UNCHANGED <<jumpIsForced, chainJumps, turnStartOpp>>
       ELSE /\ jumpIsForced' = (getAllPossibleJumps(grid, currentPlayer) # {})
            /\ pc' = "input"
            /\ chainJumps' = 0
            /\ turnStartOpp' = countPieces(grid, switchPlayer(currentPlayer))
            /\ UNCHANGED winner
    /\ UNCHANGED <<grid, currentPlayer, input, outcome, lastLanding, lastMove,
                   nMoves, got>>

\* Inner loop: a line is read and parsed.
ReadInput ==
    /\ pc = "input"
    /\ nMoves < MaxMoves
    /\ \E r1 \in Coords, c1 \in Coords,
          dr \in (-MaxDelta) .. MaxDelta, dc \in (-MaxDelta) .. MaxDelta :
          IF parseInput(r1, c1, r1 + dr, c1 + dc)
          THEN /\ input' = [r1 |-> r1, c1 |-> c1, r2 |-> r1 + dr, c2 |-> c1 + dc]
               /\ pc' = "parsed"
               /\ UNCHANGED outcome
          ELSE /\ outcome' = "InvalidInput"
               /\ UNCHANGED <<input, pc>>
    /\ UNCHANGED <<grid, currentPlayer, jumpIsForced, winner, lastLanding,
                   lastMove, nMoves, chainJumps, turnStartOpp, got>>

\* Inner loop: "exit" or "quit" is read.
Exit ==
    /\ pc = "input"
    /\ pc' = "exit"
    /\ UNCHANGED <<grid, currentPlayer, jumpIsForced, input, outcome, winner,
                   lastLanding, lastMove, nMoves, chainJumps, turnStartOpp,
                   got>>

Reject(reason) ==
    /\ outcome' = reason
    /\ pc' = "input"
    /\ UNCHANGED <<grid, currentPlayer, lastLanding, lastMove, nMoves,
                   chainJumps, turnStartOpp>>

Execute(r1, c1, r2, c2) ==
    LET res == executeMove(grid, currentPlayer, r1, c1, r2, c2) IN
    /\ grid' = res.grid
    /\ currentPlayer' = res.currentPlayer
    /\ nMoves' = nMoves + 1
    /\ lastMove' = [r1 |-> r1, c1 |-> c1, r2 |-> r2, c2 |-> c2]
    /\ chainJumps' = IF Abs(r2 - r1) = 2 THEN chainJumps + 1 ELSE chainJumps
    /\ UNCHANGED turnStartOpp
    /\ IF res.ret
       THEN /\ outcome' = "ContinuationRequired"
            /\ lastLanding' = <<r2, c2>>
            /\ pc' = "input"
       ELSE /\ outcome' = "TurnEnded"
            /\ lastLanding' = NoSquare
            /\ pc' = "loop"

\* The selection test only looks for a piece, not for its owner.
ProcessMove_noOwner ==
    /\ pc = "parsed"
    /\ LET r1 == input.r1
           c1 == input.c1
           r2 == input.r2
           c2 == input.c2
           piece == getPiece(grid, r1, c1)
           isJump == Abs(r2 - r1) = 2
       IN IF piece = Null
          THEN Reject("InvalidSelection")
          ELSE IF jumpIsForced
          THEN IF isJump
               THEN IF isJumpValid(grid, r1, c1, r2, c2)
                    THEN Execute(r1, c1, r2, c2)
                    ELSE Reject("InvalidJump")
               ELSE Reject("CaptureMandatory")
          ELSE IF isJump
               THEN IF isJumpValid(grid, r1, c1, r2, c2)
                    THEN Execute(r1, c1, r2, c2)
                    ELSE Reject("InvalidJumpFree")
               ELSE IF isSimpleMoveValid(grid, r1, c1, r2, c2)
                    THEN Execute(r1, c1, r2, c2)
                    ELSE Reject("InvalidSimple")
    /\ input' = NoInput
    /\ UNCHANGED <<jumpIsForced, winner, got>>

\* Inner loop: the parsed move is validated and, if valid, executed.
ProcessMove ==
    /\ pc = "parsed"
    /\ LET r1 == input.r1
           c1 == input.c1
           r2 == input.r2
           c2 == input.c2
           piece == getPiece(grid, r1, c1)
           isJump == Abs(r2 - r1) = 2
       IN IF piece = Null \/ piece.owner # currentPlayer
          THEN Reject("InvalidSelection")
          ELSE IF jumpIsForced
          THEN IF isJump
               THEN IF isJumpValid(grid, r1, c1, r2, c2)
                    THEN Execute(r1, c1, r2, c2)
                    ELSE Reject("InvalidJump")
               ELSE Reject("CaptureMandatory")
          ELSE IF isJump
               THEN IF isJumpValid(grid, r1, c1, r2, c2)
                    THEN Execute(r1, c1, r2, c2)
                    ELSE Reject("InvalidJumpFree")
               ELSE IF isSimpleMoveValid(grid, r1, c1, r2, c2)
                    THEN Execute(r1, c1, r2, c2)
                    ELSE Reject("InvalidSimple")
    /\ input' = NoInput
    /\ UNCHANGED <<jumpIsForced, winner, got>>

Next ==
    \/ InitializeBoard
    \/ StartTurn
    \/ ReadInput
    \/ Exit
    \/ ProcessMove

Spec == Init /\ [][Next]_vars

\* The player keeps typing: a line that parses to a move valid in the mode
\* of the turn is typed again and again while the game waits for one, and a
\* parsed line is always processed.
SubmitLegalMove ==
    /\ pc = "input"
    /\ nMoves < MaxMoves
    /\ pc' = "parsed"
    /\ \E s \in Squares :
          /\ getPiece(grid, s[1], s[2]).owner = currentPlayer
          /\ \E d \in (IF jumpIsForced THEN JumpDirections
                       ELSE SimpleDirections) :
                /\ Abs(d[1]) <= MaxDelta
                /\ parseInput(s[1], s[2], s[1] + d[1], s[2] + d[2])
                /\ IF jumpIsForced
                   THEN isJumpValid(grid, s[1], s[2], s[1] + d[1], s[2] + d[2])
                   ELSE isSimpleMoveValid(grid, s[1], s[2],
                                          s[1] + d[1], s[2] + d[2])
                /\ input' = [r1 |-> s[1], c1 |-> s[2],
                             r2 |-> s[1] + d[1], c2 |-> s[2] + d[2]]
    /\ UNCHANGED <<grid, currentPlayer, jumpIsForced, outcome, winner,
                   lastLanding, lastMove, nMoves, chainJumps, turnStartOpp,
                   got>>

LiveSpec == Spec /\ SF_vars(SubmitLegalMove) /\ WF_vars(ProcessMove)

\* ------------------------------------------- the Board functions by themselves
\* Grids the Board functions are called on directly: the grid of a new
\* Board, the grid after initializeBoard, the positions of games in
\* progress, and a position with pieces on the edge and in a corner.
BoardGrids ==
    {EmptyGrid, initializeBoard}
    \cup {PlaceAll(ps) : ps \in MidGames}
    \cup {PlaceAll({Piece(RED, 7, 0), King(BLACK, 0, 7), King(RED, 3, 0)})}

BoardInit ==
    /\ pc = "board"
    /\ grid \in BoardGrids
    /\ currentPlayer = RED
    /\ jumpIsForced = FALSE
    /\ input = NoInput
    /\ outcome = "None"
    /\ winner = NONE
    /\ lastLanding = NoSquare
    /\ lastMove = NoInput
    /\ nMoves = 0
    /\ chainJumps = 0
    /\ turnStartOpp = 0
    /\ got = Null

\* One function is called and returns; the call leaves its name in outcome
\* and its arguments in input.
Called(name, a1, a2, a3, a4) ==
    /\ pc' = "returned"
    /\ outcome' = name
    /\ input' = [r1 |-> a1, c1 |-> a2, r2 |-> a3, c2 |-> a4]
    /\ UNCHANGED <<currentPlayer, jumpIsForced, winner, lastLanding,
                   lastMove, nMoves, chainJumps, turnStartOpp>>

\* board.movePiece(r1, c1, r2, c2) with both squares on the board.
CallMovePiece ==
    /\ pc = "board"
    /\ \E r1 \in Coords, c1 \in Coords,
          dr \in (-MaxDelta) .. MaxDelta, dc \in (-MaxDelta) .. MaxDelta :
          /\ isInBounds(r1 + dr, c1 + dc)
          /\ Called("movePiece", r1, c1, r1 + dr, c1 + dc)
          /\ grid' = movePiece(grid, r1, c1, r1 + dr, c1 + dc)
          /\ UNCHANGED got

\* board.removePiece(r, c) with the square on the board.
CallRemovePiece ==
    /\ pc = "board"
    /\ \E r \in Coords, c \in Coords :
          /\ Called("removePiece", r, c, -1, -1)
          /\ grid' = removePiece(grid, r, c)
          /\ UNCHANGED got

\* board.getPiece(r, c) with any coordinates, on the board or off it.
CallGetPiece ==
    /\ pc = "board"
    /\ \E r \in (-MaxDelta) .. (BOARD_SIZE - 1 + MaxDelta),
          c \in (-MaxDelta) .. (BOARD_SIZE - 1 + MaxDelta) :
          /\ Called("getPiece", r, c, -1, -1)
          /\ got' = getPiece(grid, r, c)
          /\ UNCHANGED grid

BoardNext ==
    \/ CallMovePiece
    \/ CallRemovePiece
    \/ CallGetPiece

BoardSpec == BoardInit /\ [][BoardNext]_vars

\* ------------------------------------------------- vocabulary of the rules
\* The rules as the specification words them, independent of the functions
\* above.
Other(p) == IF p = RED THEN BLACK ELSE RED

Occupied(g, r, c) == g[<<r, c>>].owner # NONE

DirectionOk(g, r1, c1, r2) ==
    \/ g[<<r1, c1>>].isKing
    \/ g[<<r1, c1>>].owner = RED /\ r2 < r1
    \/ g[<<r1, c1>>].owner = BLACK /\ r2 > r1

SimpleLegal(g, p, r1, c1, r2, c2) ==
    /\ <<r1, c1>> \in Squares /\ <<r2, c2>> \in Squares
    /\ g[<<r1, c1>>].owner = p
    /\ ~Occupied(g, r2, c2)
    /\ Abs(r2 - r1) = 1 /\ Abs(c2 - c1) = 1
    /\ DirectionOk(g, r1, c1, r2)

JumpLegal(g, p, r1, c1, r2, c2) ==
    /\ <<r1, c1>> \in Squares /\ <<r2, c2>> \in Squares
    /\ g[<<r1, c1>>].owner = p
    /\ ~Occupied(g, r2, c2)
    /\ Abs(r2 - r1) = 2 /\ Abs(c2 - c1) = 2
    /\ g[<<(r1 + r2) \div 2, (c1 + c2) \div 2>>].owner = Other(p)
    /\ DirectionOk(g, r1, c1, r2)

HasLegalJumpFrom(g, p, r, c) ==
    \E dr \in {-2, 2}, dc \in {-2, 2} : JumpLegal(g, p, r, c, r + dr, c + dc)

HasLegalJump(g, p) ==
    \E s \in Squares : g[s].owner = p /\ HasLegalJumpFrom(g, p, s[1], s[2])

Accepted == {"TurnEnded", "ContinuationRequired"}

Rejections == {"InvalidSelection", "InvalidJump", "CaptureMandatory",
               "InvalidJumpFree", "InvalidSimple"}

\* The submission being validated, and whether it is a piece of the mover.
From == <<input.r1, input.c1>>
To == <<input.r2, input.c2>>
Mid == <<(input.r1 + input.r2) \div 2, (input.c1 + input.c2) \div 2>>
OwnPieceAtFrom == grid[From].owner = currentPlayer
StateUnchanged == grid' = grid /\ currentPlayer' = currentPlayer

\* ------------------------------------------------------------------ C1
\* C1: whenever the side to move has a legal jump, a submitted simple move
\* (|drow| = 1) of one of its pieces is rejected as capture-mandatory and
\* the board and the side to move stay as they were.
C1_ForcedCapture ==
    [][(/\ pc = "parsed"
        /\ OwnPieceAtFrom
        /\ Abs(input.r2 - input.r1) = 1
        /\ HasLegalJump(grid, currentPlayer))
       => (outcome' = "CaptureMandatory" /\ StateUnchanged)]_vars

C1_Witness ==
    /\ pc = "input"
    /\ outcome = "CaptureMandatory"
    /\ HasLegalJump(grid, currentPlayer)
    /\ \E m \in getAllPossibleSimpleMoves(grid, currentPlayer) : TRUE

\* ------------------------------------------------------------------ C2
\* C2: while a continuation is required, the only submission accepted is a
\* legal jump that starts on the landing square of the previous jump; every
\* other submission is rejected and leaves the state unchanged.
C2_ContinuationRestricted ==
    [][(pc = "parsed" /\ lastLanding # NoSquare)
       => IF /\ From = lastLanding
             /\ JumpLegal(grid, currentPlayer, input.r1, input.c1,
                          input.r2, input.c2)
          THEN outcome' \in Accepted
          ELSE outcome' \in Rejections /\ StateUnchanged]_vars

\* ------------------------------------------------------------------ C3
\* C3: an accepted jump after which the moved piece has a legal jump from
\* its landing square (on the board with the captured piece removed) gives
\* continuation-required with the side to move unchanged; every other
\* accepted move ends the turn and flips the side to move.
BoardAfter(g, r1, c1, r2, c2) ==
    LET relocated == [g EXCEPT ![<<r2, c2>>] =
                                  [g[<<r1, c1>>] EXCEPT !.row = r2, !.col = c2],
                               ![<<r1, c1>>] = Null]
    IN IF Abs(r2 - r1) = 2
       THEN [relocated EXCEPT ![<<(r1 + r2) \div 2, (c1 + c2) \div 2>>] = Null]
       ELSE relocated

C3_MultiJumpAndFlip ==
    [][(pc = "parsed" /\ outcome' \in Accepted)
       => IF /\ Abs(input.r2 - input.r1) = 2
             /\ HasLegalJumpFrom(BoardAfter(grid, input.r1, input.c1,
                                            input.r2, input.c2),
                                 currentPlayer, input.r2, input.c2)
          THEN /\ outcome' = "ContinuationRequired"
               /\ currentPlayer' = currentPlayer
               /\ pc' = "input"
          ELSE /\ outcome' = "TurnEnded"
               /\ currentPlayer' = Other(currentPlayer)
               /\ pc' = "loop"]_vars

C3_Witness ==
    /\ outcome = "ContinuationRequired"
    /\ pc = "input"
    /\ lastMove.r2 = lastLanding[1] /\ lastMove.c2 = lastLanding[2]
    /\ grid[lastLanding].owner = currentPlayer
    /\ HasLegalJumpFrom(grid, currentPlayer, lastLanding[1], lastLanding[2])

\* ------------------------------------------------------------------ C4
\* C4: a submission with an empty source, a source owned by the opponent, an
\* occupied destination, a wrong geometry, a wrong direction for a non-king,
\* a jump without an opposing piece at the midpoint, or a simple move while a
\* capture is mandatory is rejected, and the grid (king flags included) and
\* the side to move stay exactly as they were.
RejectCase ==
    \/ grid[From].owner = NONE
    \/ grid[From].owner = Other(currentPlayer)
    \/ Occupied(grid, input.r2, input.c2)
    \/ ~ \/ Abs(input.r2 - input.r1) = 1 /\ Abs(input.c2 - input.c1) = 1
         \/ Abs(input.r2 - input.r1) = 2 /\ Abs(input.c2 - input.c1) = 2
    \/ ~DirectionOk(grid, input.r1, input.c1, input.r2)
    \/ /\ Abs(input.r2 - input.r1) = 2 /\ Abs(input.c2 - input.c1) = 2
       /\ grid[Mid].owner # Other(currentPlayer)
    \/ /\ Abs(input.r2 - input.r1) = 1
       /\ HasLegalJump(grid, currentPlayer)

C4_RejectionLeavesState ==
    [][(pc = "parsed" /\ (RejectCase \/ outcome' \in Rejections))
       => (outcome' \in Rejections /\ StateUnchanged /\ pc' = "input")]_vars

C4_Witness ==
    /\ pc = "input"
    /\ outcome = "InvalidSimple"
    /\ nMoves >= 1

\* ------------------------------------------------------------------ C5
\* C5: in every state every Red piece on row 0 and every Black piece on
\* row 7 is a king, and no step turns a king back into a man: a king stays a
\* king on its square, or is the piece moved (and is a king where it lands),
\* or is the piece captured.
PromotionInv(g) ==
    \A c \in Coords :
        /\ g[<<0, c>>].owner = RED => g[<<0, c>>].isKing
        /\ g[<<BOARD_SIZE - 1, c>>].owner = BLACK => g[<<BOARD_SIZE - 1, c>>].isKing

KingsStayKings ==
    \A s \in Squares :
        grid[s].isKing =>
            \/ grid'[s] = grid[s]
            \/ /\ pc = "parsed" /\ s = From /\ grid'[s] = Null
               /\ grid'[To].isKing /\ grid'[To].owner = grid[s].owner
            \/ /\ pc = "parsed" /\ s = Mid /\ grid'[s] = Null
               /\ Abs(input.r2 - input.r1) = 2

C5_PromotionInvariant ==
    /\ PromotionInv(grid)
    /\ [][grid' # grid => (PromotionInv(grid') /\ KingsStayKings)]_vars

C5_Witness ==
    /\ outcome = "TurnEnded"
    /\ lastMove.r2 = 0
    /\ grid[<<lastMove.r2, lastMove.c2>>].owner = RED
    /\ grid[<<lastMove.r2, lastMove.c2>>].isKing
    /\ Abs(lastMove.r2 - lastMove.r1) = 2

\* ------------------------------------------------------------------ C6
\* C6: after an accepted jump the midpoint square is empty, the source
\* square is empty, the landing square holds the moved piece, and the piece
\* that stood on the midpoint belonged to the opposing side.
C6_CaptureEffect ==
    [][(/\ pc = "parsed"
        /\ outcome' \in Accepted
        /\ Abs(input.r2 - input.r1) = 2)
       => (/\ grid'[Mid] = Null
           /\ grid'[From] = Null
           /\ grid'[To].owner = grid[From].owner
           /\ grid[From].isKing => grid'[To].isKing
           /\ grid'[To].row = input.r2 /\ grid'[To].col = input.c2
           /\ grid[Mid].owner = Other(grid[From].owner)
           /\ \A s \in Squares \ {From, To, Mid} : grid'[s] = grid[s])]_vars

C6_Witness ==
    /\ outcome \in Accepted
    /\ Abs(lastMove.r2 - lastMove.r1) = 2
    /\ grid[<<(lastMove.r1 + lastMove.r2) \div 2,
              (lastMove.c1 + lastMove.c2) \div 2>>] = Null
    /\ grid[<<lastMove.r1, lastMove.c1>>] = Null
    /\ grid[<<lastMove.r2, lastMove.c2>>] # Null

\* ------------------------------------------------------------------ C7
\* C7: a submission is accepted as a jump if and only if a piece of the side
\* to move is at from, to is on the board and empty, |drow| = 2 and
\* |dcol| = 2, the midpoint holds a piece of the opposing side, and a
\* non-king moves to a smaller row (Red) or a larger row (Black).
C7_JumpLegality ==
    [][pc = "parsed"
       => ((outcome' \in Accepted /\ Abs(input.r2 - input.r1) = 2)
           <=> JumpLegal(grid, currentPlayer, input.r1, input.c1,
                         input.r2, input.c2))]_vars

\* A king has captured towards its own side of the board.
C7_Witness ==
    /\ outcome \in Accepted
    /\ Abs(lastMove.r2 - lastMove.r1) = 2
    /\ LET p == grid[<<lastMove.r2, lastMove.c2>>] IN
       /\ p.isKing
       /\ \/ p.owner = RED /\ lastMove.r2 > lastMove.r1
          \/ p.owner = BLACK /\ lastMove.r2 < lastMove.r1

\* ------------------------------------------------------------------ C8
\* C8: when the side to move has no legal jump, a submission is accepted as
\* a simple move if and only if a piece of the side to move is at from, to is
\* on the board and empty, |drow| = 1 and |dcol| = 1, and a non-king moves to
\* a smaller row (Red) or a larger row (Black); an accepted simple move ends
\* the turn.
C8_SimpleLegality ==
    [][pc = "parsed"
       => \/ /\ (outcome' \in Accepted /\ Abs(input.r2 - input.r1) # 2)
                <=> SimpleLegal(grid, currentPlayer, input.r1, input.c1,
                                input.r2, input.c2)
             /\ (outcome' \in Accepted /\ Abs(input.r2 - input.r1) # 2)
                => /\ outcome' = "TurnEnded"
                   /\ pc' = "loop"
                   /\ currentPlayer' = Other(currentPlayer)
          \/ HasLegalJump(grid, currentPlayer)]_vars

C8_Witness ==
    /\ outcome = "TurnEnded"
    /\ pc = "loop"
    /\ Abs(lastMove.r2 - lastMove.r1) = 1
    /\ Abs(lastMove.c2 - lastMove.c1) = 1
    /\ grid[<<lastMove.r2, lastMove.c2>>].owner = Other(currentPlayer)

\* ------------------------------------------------------------------ C9
\* C9: the legal simple moves computed for the side to move never contain a
\* move of a non-king Red piece to a larger row nor a move of a non-king
\* Black piece to a smaller row.  (Reading a line changes neither the
\* board nor the side to move, so the states that hold a parsed line add no
\* position to those checked.)
C9_SimpleMovesDirection ==
    pc # "parsed" =>
    \A m \in getAllPossibleSimpleMoves(grid, currentPlayer) :
        LET p == grid[<<m.startR, m.startC>>] IN
        /\ (p.owner = RED /\ ~p.isKing) => m.endR < m.startR
        /\ (p.owner = BLACK /\ ~p.isKing) => m.endR > m.startR

\* A man of the side to move has a listed move and an empty square behind it.
C9_Witness ==
    /\ pc = "input"
    /\ \E m \in getAllPossibleSimpleMoves(grid, currentPlayer) :
        LET p == grid[<<m.startR, m.startC>>]
            back == <<m.startR - (m.endR - m.startR), m.endC>>
        IN /\ ~p.isKing
           /\ back \in Squares
           /\ grid[back] = Null

\* ----------------------------------------------------------------- C10
\* C10: when one side has no piece on the board and the other has at least
\* one, checkForWin returns the side that still has pieces, whichever side is
\* to move; the turn loop then stops with that winner.  (Checked at every
\* position; the states that hold a parsed line repeat the position of the
\* state before.)
NumPieces(g, p) == Cardinality({s \in Squares : g[s].owner = p})

C10_WinByElimination ==
    pc # "parsed" =>
    \A p \in {RED, BLACK} :
        (NumPieces(grid, p) = 0 /\ NumPieces(grid, Other(p)) >= 1)
        => /\ \A toMove \in {RED, BLACK} : checkForWin(grid, toMove) = Other(p)
           /\ pc = "won" => winner = Other(p)

C10_Witness ==
    /\ pc = "won"
    /\ winner = RED
    /\ NumPieces(grid, BLACK) = 0
    /\ NumPieces(grid, RED) >= 1
    /\ nMoves >= 1

\* ----------------------------------------------------------------- C11
\* C11: when both sides have at least one piece, checkForWin returns the
\* opponent of the side to move if the side to move has no legal jump and no
\* legal simple move, and no winner if it has at least one; the turn loop
\* stops exactly in the first case.
HasLegalSimple(g, p) ==
    \E s \in Squares :
        /\ g[s].owner = p
        /\ \E dr \in {-1, 1}, dc \in {-1, 1} :
              SimpleLegal(g, p, s[1], s[2], s[1] + dr, s[2] + dc)

CanAct(g, p) == HasLegalJump(g, p) \/ HasLegalSimple(g, p)

C11_WinByBlockade ==
    (pc # "parsed" /\ NumPieces(grid, RED) >= 1 /\ NumPieces(grid, BLACK) >= 1)
    => /\ \A toMove \in {RED, BLACK} :
            checkForWin(grid, toMove) =
                (IF CanAct(grid, toMove) THEN NONE ELSE Other(toMove))
       /\ pc = "won" => (winner = Other(currentPlayer)
                         /\ ~CanAct(grid, currentPlayer))
       /\ pc = "input" => CanAct(grid, currentPlayer)

C11_Witness ==
    /\ pc = "won"
    /\ NumPieces(grid, RED) >= 1
    /\ NumPieces(grid, BLACK) >= 1
    /\ winner = Other(currentPlayer)
    /\ ~CanAct(grid, currentPlayer)

\* ----------------------------------------------------------------- C12
\* C12: initialization leaves exactly 12 Black men on the dark squares of
\* rows 0-2 and exactly 12 Red men on the dark squares of rows 5-7, rows 3
\* and 4 empty and every light square empty.
Dark(s) == (s[1] + s[2]) % 2 = 1

StandardPosition(g) ==
    /\ NumPieces(g, BLACK) = 12
    /\ NumPieces(g, RED) = 12
    /\ \A s \in Squares :
        /\ g[s].owner = BLACK => (s[1] \in 0 .. 2 /\ Dark(s) /\ ~g[s].isKing)
        /\ g[s].owner = RED => (s[1] \in 5 .. 7 /\ Dark(s) /\ ~g[s].isKing)
        /\ s[1] \in {3, 4} => g[s] = Null
        /\ ~Dark(s) => g[s] = Null

C12_InitialPosition ==
    [][pc = "init" => (StandardPosition(grid') /\ pc' = "loop")]_vars

C12_Witness ==
    /\ pc = "loop"
    /\ nMoves = 0
    /\ StandardPosition(grid)
    /\ grid[<<0, 1>>].owner = BLACK
    /\ grid[<<7, 0>>].owner = RED

\* ----------------------------------------------------------------- C13
\* C13: from the initial position Red is the side to move, the game goes on
\* to ask for a move and no capture is mandatory; the simple move
\* (5,0) -> (4,1) is accepted and after it the side to move is Black.
OpeningMove == [r1 |-> 5, c1 |-> 0, r2 |-> 4, c2 |-> 1]

C13_OpeningMove ==
    [][/\ (pc \in {"loop", "input", "parsed"} /\ nMoves = 0
              /\ StandardPosition(grid))
          => /\ currentPlayer = RED
             /\ ~HasLegalJump(grid, RED)
             /\ pc # "loop" => ~jumpIsForced
             /\ pc = "loop" => (pc' = "input" /\ ~jumpIsForced')
       /\ (pc = "parsed" /\ nMoves = 0 /\ input = OpeningMove
              /\ StandardPosition(grid))
          => /\ outcome' = "TurnEnded"
             /\ currentPlayer' = BLACK
             /\ grid'[<<4, 1>>].owner = RED
             /\ grid'[<<5, 0>>] = Null
             /\ pc' = "loop"]_vars

C13_Witness ==
    /\ lastMove = OpeningMove
    /\ nMoves = 1
    /\ outcome = "TurnEnded"
    /\ currentPlayer = BLACK
    /\ NumPieces(grid, RED) = 12
    /\ NumPieces(grid, BLACK) = 12

\* ----------------------------------------------------------------- C14
\* C14: in every state reached by accepted moves, every piece stored in
\* grid slot (r,c) records the position (r,c), and every light square is
\* empty.  (The states that hold a parsed line repeat the position of the
\* state before.)
C14_BoardConsistency ==
    pc # "parsed" =>
    \A s \in Squares :
        grid[s] # Null
        => (grid[s].row = s[1] /\ grid[s].col = s[2] /\ Dark(s))

C14_Witness ==
    /\ nMoves = MaxMoves
    /\ lastMove # NoInput
    /\ grid[<<lastMove.r2, lastMove.c2>>].row = lastMove.r2
    /\ grid[<<lastMove.r2, lastMove.c2>>].col = lastMove.c2
    /\ grid[<<lastMove.r1, lastMove.c1>>] = Null

\* ----------------------------------------------------------------- C15
\* C15: when the position at the top of the turn loop is terminal (a side
\* without a piece, or the side to move without a legal action) the loop
\* stops with a winner; a winner is only ever recorded in the stopped loop,
\* and once stopped nothing changes any more.
Terminal(g, p) ==
    \/ NumPieces(g, RED) = 0
    \/ NumPieces(g, BLACK) = 0
    \/ ~CanAct(g, p)

C15_TerminalAbsorbing ==
    [][/\ (pc = "loop" /\ Terminal(grid, currentPlayer))
          => (pc' = "won" /\ winner' # NONE /\ StateUnchanged)
       /\ winner' # NONE => pc' = "won"
       /\ pc = "won" => vars' = vars]_vars

C15_Witness ==
    /\ pc = "won"
    /\ winner # NONE
    /\ nMoves >= 1
    /\ outcome = "TurnEnded"
    /\ Terminal(grid, currentPlayer)

\* ----------------------------------------------------------------- C16
\* C16: the step that computes checkForWin and the legal jumps leaves the
\* grid (king flags included) and the side to move unchanged, and so does
\* every step other than the initial placement and the execution of an
\* accepted move.
C16_QueriesReadOnly ==
    [][/\ pc = "loop" => StateUnchanged
       /\ (pc # "init" /\ ~StateUnchanged)
          => (pc = "parsed" /\ outcome' \in Accepted /\ nMoves' = nMoves + 1)]_vars

C16_Witness ==
    /\ pc = "input"
    /\ jumpIsForced
    /\ outcome = "TurnEnded"
    /\ nMoves >= 1
    /\ getAllPossibleJumps(grid, currentPlayer) # {}
    /\ getAllPossibleSimpleMoves(grid, currentPlayer) # {}

\* ----------------------------------------------------------------- C17
\* C17: a man that jumps onto its last row (row 0 for Red, row 7 for Black)
\* never gets continuation-required: it is made a king and the turn ends
\* with the side to move flipped; and a move that reports
\* continuation-required promotes no piece.
LastRow(p) == IF p = RED THEN 0 ELSE BOARD_SIZE - 1

C17_PromotionEndsChain ==
    [][(pc = "parsed" /\ outcome' \in Accepted)
       => /\ (/\ Abs(input.r2 - input.r1) = 2
              /\ ~grid[From].isKing
              /\ input.r2 = LastRow(grid[From].owner))
             => /\ outcome' = "TurnEnded"
                /\ grid'[To].isKing
                /\ currentPlayer' = Other(currentPlayer)
          /\ outcome' = "ContinuationRequired"
             => /\ grid'[To].isKing = grid[From].isKing
                /\ \A s \in Squares \ {To} :
                      grid'[s] # Null => grid'[s] = grid[s]]_vars

\* A Red man has captured onto row 0 where, as a king, it has a further jump.
C17_Witness ==
    /\ outcome = "TurnEnded"
    /\ pc = "loop"
    /\ Abs(lastMove.r2 - lastMove.r1) = 2
    /\ lastMove.r2 = 0
    /\ grid[<<lastMove.r2, lastMove.c2>>].owner = RED
    /\ grid[<<lastMove.r2, lastMove.c2>>].isKing
    /\ currentPlayer = BLACK
    /\ HasLegalJumpFrom(grid, RED, lastMove.r2, lastMove.c2)

\* ----------------------------------------------------------------- C18
\* C18: a submission whose source square is empty or holds a piece of the
\* side not to move is rejected as an invalid selection and leaves the state
\* unchanged, with or without a mandatory capture and inside a capture chain
\* as well.
C18_SourceSquareRejection ==
    [][(pc = "parsed" /\ grid[From].owner # currentPlayer)
       => (outcome' = "InvalidSelection" /\ StateUnchanged /\ pc' = "input")]_vars

\* An opposing piece was selected in the middle of a capture chain.
C18_Witness ==
    /\ pc = "input"
    /\ outcome = "InvalidSelection"
    /\ lastLanding # NoSquare
    /\ jumpIsForced
    /\ NumPieces(grid, Other(currentPlayer)) >= 1

\* ----------------------------------------------------------------- C19
\* C19: every executed move has a piece on its source square and an empty
\* destination square; a piece only stops being where it was by being the
\* piece moved or by standing on the midpoint of an accepted jump, so no
\* piece is ever overwritten.
C19_NoOverwrite ==
    [][/\ (pc = "parsed" /\ outcome' \in Accepted)
          => (grid[From] # Null /\ grid[To] = Null /\ grid'[To] # Null)
       /\ grid' # grid
          => \A s \in Squares :
                (grid[s] # Null /\ grid'[s] # grid[s])
                => /\ pc = "parsed"
                   /\ outcome' \in Accepted
                   /\ grid'[s] = Null
                   /\ \/ s = From /\ grid'[To].owner = grid[From].owner
                      \/ s = Mid /\ Abs(input.r2 - input.r1) = 2]_vars

\* A simple move has been executed and both sides still have every piece of
\* the initial position.
C19_Witness ==
    /\ nMoves = MaxMoves
    /\ outcome = "TurnEnded"
    /\ Abs(lastMove.r2 - lastMove.r1) = 1
    /\ NumPieces(grid, RED) = 12
    /\ NumPieces(grid, BLACK) = 12
    /\ grid[<<lastMove.r1, lastMove.c1>>] = Null

\* ----------------------------------------------------------------- C20
\* C20: whenever a submission is validated the forced-capture flag equals
\* whether the side to move has a legal jump at that moment.  Stated step by
\* step: the flag is accurate each time the loop starts to wait for a
\* submission (at the turn start and after an executed jump that requires a
\* continuation); reading a line and rejecting a submission change neither
\* the flag nor the board nor the side to move; no jump is accepted with the
\* flag off and no simple move is accepted with the flag on.
C20_FlagAccurate ==
    [][/\ (pc' = "input" /\ (pc = "loop" \/ outcome' \in Accepted))
          => jumpIsForced' = HasLegalJump(grid', currentPlayer')
       /\ (pc = "input" /\ pc' = "parsed")
          => (jumpIsForced' = jumpIsForced /\ StateUnchanged)
       /\ (pc = "parsed" /\ outcome' \notin Accepted)
          => (jumpIsForced' = jumpIsForced /\ StateUnchanged /\ pc' = "input")
       /\ (pc = "parsed" /\ outcome' \in Accepted)
          => jumpIsForced = (Abs(input.r2 - input.r1) = 2)]_vars

\* The flag computed at the turn start is in use inside a capture chain,
\* after a rejected submission.
C20_Witness ==
    /\ pc = "parsed"
    /\ jumpIsForced
    /\ lastLanding # NoSquare
    /\ outcome \in Rejections
    /\ HasLegalJump(grid, currentPlayer)

\* ------------------------------------------------------------------ C21
\* C21: once the board is set up no step raises either side's piece count;
\* an accepted simple move leaves both counts as they were; an accepted jump
\* lowers the opponent's count by exactly 1 and leaves the mover's count as
\* it was; and no piece changes owner: a piece found on a square after a
\* step was there before with the same owner, or is the moved piece, which
\* has the owner it had on the square it left.
C21_PieceCounts ==
    [][(pc # "init" /\ grid' # grid)
       => /\ \A p \in {RED, BLACK} : NumPieces(grid', p) <= NumPieces(grid, p)
          /\ pc = "parsed" /\ outcome' \in Accepted
          /\ NumPieces(grid', currentPlayer) = NumPieces(grid, currentPlayer)
          /\ NumPieces(grid', Other(currentPlayer))
                = NumPieces(grid, Other(currentPlayer))
                  - (IF Abs(input.r2 - input.r1) = 2 THEN 1 ELSE 0)
          /\ \A s \in Squares :
                grid'[s] # Null
                => \/ grid[s] # Null /\ grid'[s].owner = grid[s].owner
                   \/ /\ s = To
                      /\ grid[s] = Null
                      /\ grid'[s].owner = grid[From].owner
                      /\ grid'[s].owner = currentPlayer]_vars

\* The first jump of a chain has been accepted in the position of two men
\* against two: the mover still has two pieces and the opponent has one.
C21_Witness ==
    /\ nMoves = 1
    /\ Abs(lastMove.r2 - lastMove.r1) = 2
    /\ outcome = "ContinuationRequired"
    /\ NumPieces(grid, currentPlayer) = 2
    /\ NumPieces(grid, Other(currentPlayer)) = 1

\* ------------------------------------------------------------------ C22
\* A capture chain is open: the last accepted jump reported a continuation.
InChain == lastLanding # NoSquare

\* The submission is legal in the mode of the turn: a jump when a jump is
\* forced, a simple move otherwise.
LegalInMode(g, p, forced, m) ==
    IF forced THEN JumpLegal(g, p, m.r1, m.c1, m.r2, m.c2)
    ELSE SimpleLegal(g, p, m.r1, m.c1, m.r2, m.c2)

\* A line can be typed that parses to a submission legal in the mode of
\* the turn.
CanSubmitLegal ==
    ENABLED (/\ ReadInput
             /\ pc' = "parsed"
             /\ LegalInMode(grid, currentPlayer, jumpIsForced, input'))

\* C22: whenever the game waits for a move (at a turn start after
\* checkForWin found no winner, or during a capture chain) both sides have a
\* piece, a submission legal in the mode of the turn exists and can be
\* typed, and every such submission is accepted; in particular, while a
\* continuation is required the side to move has a legal jump from the
\* landing square and the opponent has at least one piece.
C22_NoStuckTurn ==
    /\ [](pc = "input"
          => /\ NumPieces(grid, currentPlayer) >= 1
             /\ NumPieces(grid, Other(currentPlayer)) >= 1
             /\ IF jumpIsForced THEN HasLegalJump(grid, currentPlayer)
                ELSE HasLegalSimple(grid, currentPlayer)
             /\ InChain
                => /\ jumpIsForced
                   /\ HasLegalJumpFrom(grid, currentPlayer,
                                       lastLanding[1], lastLanding[2])
             /\ nMoves < MaxMoves => CanSubmitLegal)
    /\ [][(pc = "parsed"
           /\ LegalInMode(grid, currentPlayer, jumpIsForced, input))
          => outcome' \in Accepted]_vars

\* A continuation is required, and the mover has typed a rejected line
\* since: the game waits again for a jump from the landing square.
C22_Witness ==
    /\ pc = "input"
    /\ InChain
    /\ outcome \in Rejections
    /\ HasLegalJumpFrom(grid, currentPlayer, lastLanding[1], lastLanding[2])

\* ------------------------------------------------------------------ C23
\* C23: within one turn the jumps accepted so far plus the pieces the
\* opponent has left equal the pieces the opponent had when the turn
\* started, so the number of consecutive accepted jumps never exceeds that
\* number; a jump that asks for a continuation leaves the opponent with one
\* piece fewer and at least one; and, as long as legal moves keep being
\* typed, a turn in which the game waits for a move ends, which flips the
\* side to move (unless the player exits or the exploration stops at
\* MaxMoves executed moves).
C23_ChainsTerminate ==
    /\ [](chainJumps <= turnStartOpp)
    /\ []((pc = "input" \/ (pc = "loop" /\ nMoves > 0))
          => chainJumps + NumPieces(grid, IF pc = "input"
                                          THEN Other(currentPlayer)
                                          ELSE currentPlayer)
             = turnStartOpp)
    /\ [][(pc = "parsed" /\ outcome' = "ContinuationRequired")
          => /\ NumPieces(grid', Other(currentPlayer))
                  = NumPieces(grid, Other(currentPlayer)) - 1
             /\ NumPieces(grid', Other(currentPlayer)) >= 1
             /\ chainJumps' = chainJumps + 1]_vars
    /\ [][(pc = "parsed" /\ pc' = "loop")
          => currentPlayer' = Other(currentPlayer)]_vars
    /\ (pc = "input")
       ~> (pc = "loop" \/ pc = "exit" \/ (pc = "input" /\ nMoves = MaxMoves))

\* A chain of two jumps has ended the turn of a side whose opponent had
\* two pieces when the turn started.
C23_Witness ==
    /\ pc = "loop"
    /\ chainJumps = 2
    /\ turnStartOpp = 2
    /\ outcome = "TurnEnded"

\* ------------------------------------------------------------------ C24
\* The call that has just been made, and the square its first two
\* arguments name.
JustCalled(name) == pc = "board" /\ pc' = "returned" /\ outcome' = name
CalledSquare == <<input'.r1, input'.c1>>

\* C24: movePiece with no piece on the source square leaves the whole grid
\* as it was, whatever is on the target square; removePiece on an empty
\* square leaves the whole grid as it was; getPiece returns no piece for
\* every coordinate pair outside [0,7] x [0,7], returns the content of the
\* square otherwise, and changes nothing.
C24_AbsentPieces ==
    [][/\ (JustCalled("movePiece") /\ grid[CalledSquare].owner = NONE)
          => grid' = grid
       /\ (JustCalled("removePiece") /\ grid[CalledSquare].owner = NONE)
          => grid' = grid
       /\ JustCalled("getPiece")
          => /\ grid' = grid
             /\ IF CalledSquare \in Squares
                THEN got' = grid[CalledSquare]
                ELSE got'.owner = NONE]_vars

\* movePiece has been called from an empty square to an occupied one and
\* the grid is one of the grids the calls started from.
C24_Witness ==
    /\ pc = "returned"
    /\ outcome = "movePiece"
    /\ grid \in BoardGrids
    /\ grid[<<input.r1, input.c1>>].owner = NONE
    /\ grid[<<input.r2, input.c2>>].owner # NONE

====
